---- MODULE Spec2Model ----
(***************************************************************************)
(* LightMap (src/LightMap.js): a Map subclass with filter / map / reduce / *)
(* sortKeys, mapToArray serialisation, indexOf and the Symbol.replace hook. *)
(*                                                                         *)
(* JavaScript values are records tagged by field t.  Strings are sequences *)
(* of one-character strings.  Arrays are held by value (no operation of    *)
(* the class mutates an array); LightMap instances are objects with        *)
(* identity: a value LM(a) is a reference to heap[a], the instance's       *)
(* [[MapData]] as a sequence of <<key, value>> entries in insertion order. *)
(* A thrown TypeError is the marker TypeError in place of a result.        *)
(***************************************************************************)
EXTENDS Integers, Sequences, FiniteSets

VARIABLES heap, m, r, op

vars == <<heap, m, r, op>>

(***************************************************************************)
(* Bounds of the model                                                     *)
(***************************************************************************)
MaxLen == 2
MaxArr == 2

(***************************************************************************)
(* JavaScript values                                                       *)
(***************************************************************************)
Undefined == [t |-> "undefined"]
Null      == [t |-> "null"]
NaN       == [t |-> "number", nan |-> TRUE]
Num(n)    == [t |-> "number", n |-> n]
Str(s)    == [t |-> "string", s |-> s]
Arr(e)    == [t |-> "array", e |-> e]
Obj2      == [t |-> "object", length |-> 2]
LM(a)     == [t |-> "LightMap", a |-> a]
TypeError == [t |-> "TypeError"]
None      == [t |-> "none"]

IsNullish(v) == v.t \in {"undefined", "null"}

\* ToBoolean, as applied by `!entry`, `a || b` and `if( fn(...) )`
Truthy(v) ==
    CASE v.t \in {"undefined", "null"} -> FALSE
      [] v.t = "number" -> v # NaN /\ v # Num(0)
      [] v.t = "string" -> v.s # <<>>
      [] OTHER -> TRUE

\* a || b
OrElse(a, b) == IF Truthy(a) THEN a ELSE b

\* SameValueZero on primitives, the key equality of Map (NaN equals NaN)
SameValueZero(x, y) == x = y

\* x === y on primitives (NaN differs from itself)
StrictEquals(x, y) == x = y /\ x # NaN

\* v.length
Length(v) ==
    CASE v.t = "string" -> Num(Len(v.s))
      [] v.t = "array"  -> Num(Len(v.e))
      [] v.t = "object" -> Num(v.length)
      [] OTHER -> Undefined

\* v[i], i zero-based, on a non-nullish value
Index(v, i) ==
    CASE v.t = "array"  -> IF i < Len(v.e) THEN v.e[i + 1] ELSE Undefined
      [] v.t = "string" -> IF i < Len(v.s) THEN Str(<<v.s[i + 1]>>) ELSE Undefined
      [] OTHER -> Undefined

(***************************************************************************)
(* Map.prototype primitives on an entry sequence                           *)
(***************************************************************************)
KeyIndex(es, k) ==
    IF \E i \in 1..Len(es) : SameValueZero(es[i][1], k)
    THEN CHOOSE i \in 1..Len(es) : SameValueZero(es[i][1], k)
    ELSE 0

MapHas(es, k) == KeyIndex(es, k) # 0

MapGet(es, k) == IF MapHas(es, k) THEN es[KeyIndex(es, k)][2] ELSE Undefined

\* set keeps the position of an existing key and appends a new one
MapSet(es, k, v) ==
    IF MapHas(es, k)
    THEN [es EXCEPT ![KeyIndex(es, k)] = <<k, v>>]
    ELSE Append(es, <<k, v>>)

MapDelete(es, k) ==
    IF MapHas(es, k)
    THEN LET i == KeyIndex(es, k)
         IN SubSeq(es, 1, i - 1) \o SubSeq(es, i + 1, Len(es))
    ELSE es

MapKeys(es) == [i \in 1..Len(es) |-> es[i][1]]

\* super( n ): the Map constructor over the items of an array (or nothing).
\* An item that is not an object raises; an item's [0] and [1] are the entry.
\* Yields [t |-> "entries", es |-> the entries] or TypeError.
Entries(es) == [t |-> "entries", es |-> es]

MapFromIterable(n) ==
    IF IsNullish(n) THEN Entries(<<>>)
    ELSE IF n.t # "array" THEN TypeError
    ELSE LET acc[i \in 0..Len(n.e)] ==
                 IF i = 0 THEN Entries(<<>>)
                 ELSE LET prev == acc[i - 1]
                          item == n.e[i]
                      IN IF prev = TypeError THEN TypeError
                         ELSE IF item.t \notin {"array", "object", "LightMap"}
                              THEN TypeError
                              ELSE Entries(MapSet(prev.es, Index(item, 0),
                                                  Index(item, 1)))
         IN acc[Len(n.e)]

(***************************************************************************)
(* constructor and [ Symbol.constructMapByPattern ]                        *)
(* Each yields [h |-> heap after the call, v |-> result or TypeError].     *)
(***************************************************************************)
RECURSIVE Construct(_, _), Normalise(_, _, _), ConstructMapByPattern(_, _)

\* n.filter( i => i.length === 2 ) raises on a null or undefined element
PatternThrows(n) == \E i \in 1..Len(n.e) : IsNullish(n.e[i])

AllLengthTwo(n) == \A i \in 1..Len(n.e) : Length(n.e[i]) = Num(2)

ConstructMapByPattern(h, n) ==
    IF n.t = "array"
    THEN IF PatternThrows(n) THEN [h |-> h, v |-> TypeError]
         ELSE IF AllLengthTwo(n) THEN Construct(h, n)
         ELSE [h |-> h, v |-> n]
    ELSE [h |-> h, v |-> n]

\* this.forEach( ( v, k ) => this.set( k, constructMapByPattern( v ) ) ),
\* from the i-th entry of the instance at address a on
Normalise(h, a, i) ==
    IF i > Len(h[a]) THEN [h |-> h, v |-> LM(a)]
    ELSE LET c == ConstructMapByPattern(h, h[a][i][2])
         IN IF c.v = TypeError THEN [h |-> c.h, v |-> TypeError]
            ELSE Normalise([c.h EXCEPT ![a] = MapSet(c.h[a], h[a][i][1], c.v)],
                           a, i + 1)

Construct(h, n) ==
    LET base == MapFromIterable(n)
    IN IF base = TypeError THEN [h |-> h, v |-> TypeError]
       ELSE Normalise(Append(h, base.es), Len(h) + 1, 1)

(***************************************************************************)
(* Strings: UTF-16 code units, ToString, JSON.stringify                    *)
(***************************************************************************)
DigitChars == <<"0", "1", "2", "3", "4", "5", "6", "7", "8", "9">>

LowerChars == <<"a", "b", "c", "d", "e", "f", "g", "h", "i", "j", "k", "l", "m",
                "n", "o", "p", "q", "r", "s", "t", "u", "v", "w", "x", "y", "z">>

PosIn(seq, c) == CHOOSE i \in 1..Len(seq) : seq[i] = c

IsIn(seq, c) == \E i \in 1..Len(seq) : seq[i] = c

\* the UTF-16 code unit of a character of the strings the model builds
CodeUnit(c) ==
    CASE IsIn(DigitChars, c) -> 47 + PosIn(DigitChars, c)
      [] IsIn(LowerChars, c) -> 96 + PosIn(LowerChars, c)
      [] c = " " -> 32
      [] c = "\"" -> 34
      [] c = "," -> 44
      [] c = "-" -> 45
      [] c = ":" -> 58
      [] c = "N" -> 78
      [] c = "O" -> 79
      [] c = "[" -> 91
      [] c = "]" -> 93
      [] c = "{" -> 123
      [] c = "}" -> 125

\* s < t in code unit order, the order of the default sort and of `<` on strings
RECURSIVE StrLess(_, _)
StrLess(s, t) ==
    IF t = <<>> THEN FALSE
    ELSE IF s = <<>> THEN TRUE
    ELSE IF CodeUnit(Head(s)) # CodeUnit(Head(t))
         THEN CodeUnit(Head(s)) < CodeUnit(Head(t))
         ELSE StrLess(Tail(s), Tail(t))

RECURSIVE NatToStr(_)
NatToStr(n) ==
    IF n < 10 THEN <<DigitChars[n + 1]>>
    ELSE NatToStr(n \div 10) \o <<DigitChars[(n % 10) + 1]>>

NumberToStr(v) ==
    IF v = NaN THEN <<"N", "a", "N">>
    ELSE IF v.n < 0 THEN <<"-">> \o NatToStr(-v.n)
    ELSE NatToStr(v.n)

RECURSIVE JoinWith(_, _)
\* the strings of seq joined by the separator
JoinWith(seq, sep) ==
    IF seq = <<>> THEN <<>>
    ELSE IF Len(seq) = 1 THEN seq[1]
    ELSE seq[1] \o sep \o JoinWith(Tail(seq), sep)

RECURSIVE Stringify(_)
\* JSON.stringify of a value that holds no LightMap (strings hold no quote
\* or backslash here, so none is escaped)
Stringify(v) ==
    CASE v.t \in {"undefined", "null"} -> <<"n", "u", "l", "l">>
      [] v.t = "number" ->
            IF v = NaN THEN <<"n", "u", "l", "l">> ELSE NumberToStr(v)
      [] v.t = "string" -> <<"\"">> \o v.s \o <<"\"">>
      [] v.t = "array" ->
            <<"[">> \o JoinWith([i \in 1..Len(v.e) |-> Stringify(v.e[i])], <<",">>)
                    \o <<"]">>
      [] v.t = "object" ->
            <<"{", "\"", "l", "e", "n", "g", "t", "h", "\"", ":">>
                \o NatToStr(v.length) \o <<"}">>

(***************************************************************************)
(* reduce and the operations built on it.  A callback handed to reduce is  *)
(* a closure: [name |-> which arrow function, ...the variables it closes   *)
(* over]; Call applies it to the carried value and an entry.               *)
(***************************************************************************)
RECURSIVE Reduce(_, _, _, _), mapToArray(_, _)

\* static [ Symbol.hasInstance ]: instance.constructor.name === 'LightMap',
\* which raises when instance is null or undefined
HasInstanceThrows(v) == IsNullish(v)

HasInstance(v) == v.t = "LightMap"

\* the callback of mapToArray
MapToArrayFn(h, acc, e) ==
    IF HasInstanceThrows(e[2]) THEN TypeError
    ELSE IF HasInstance(e[2])
         THEN LET j == mapToArray(h, e[2].a)             \* v = v.toJSON()
              IN IF j = TypeError THEN TypeError
                 ELSE Arr(Append(acc.e, Arr(<<e[1], j>>)))
         ELSE Arr(Append(acc.e, Arr(<<e[1], e[2]>>)))

mapToArray(h, a) == Reduce(h, [name |-> "mapToArray"], Arr(<<>>), h[a])

toJSON(h, a) == mapToArray(h, a)

\* toString(): JSON.stringify( this.mapToArray() )
toString(h, a) ==
    LET j == mapToArray(h, a)
    IN IF j = TypeError THEN TypeError ELSE Str(Stringify(j))

\* ToString of a primitive
PrimToStr(v) ==
    CASE v.t = "undefined" -> <<"u", "n", "d", "e", "f", "i", "n", "e", "d">>
      [] v.t = "null"      -> <<"n", "u", "l", "l">>
      [] v.t = "number"    -> NumberToStr(v)
      [] v.t = "string"    -> v.s

RECURSIVE ArrayToStr(_)
\* Array.prototype.join( ',' ) over an array that holds no LightMap
ArrayToStr(v) ==
    JoinWith([i \in 1..Len(v.e) |->
                 CASE IsNullish(v.e[i]) -> <<>>
                   [] v.e[i].t = "array" -> ArrayToStr(v.e[i])
                   [] v.e[i].t = "object" ->
                        <<"[", "o", "b", "j", "e", "c", "t", " ",
                          "O", "b", "j", "e", "c", "t", "]">>
                   [] OTHER -> PrimToStr(v.e[i])],
             <<",">>)

\* ToString( v ): a LightMap converts by [ Symbol.toPrimitive ]( 'string' ),
\* which is toString()
ToString(h, v) ==
    CASE v.t = "LightMap" -> toString(h, v.a)
      [] v.t = "array"    -> Str(ArrayToStr(v))
      [] v.t = "object"   -> Str(<<"[", "o", "b", "j", "e", "c", "t", " ",
                                  "O", "b", "j", "e", "c", "t", "]">>)
      [] OTHER -> Str(PrimToStr(v))

\* zero-based position of the first occurrence of pat in s, or -1
FirstIndexOf(s, pat) ==
    LET hits == {i \in 0..(Len(s) - Len(pat)) :
                    SubSeq(s, i + 1, i + Len(pat)) = pat}
    IN IF hits = {} THEN -1
       ELSE CHOOSE i \in hits : \A j \in hits : i <= j

RECURSIVE GetSubstitution(_, _, _, _)
\* the replacement text: $$, $&, $` and $' are expanded, all else is literal
GetSubstitution(rep, matched, before, after) ==
    IF rep = <<>> THEN <<>>
    ELSE IF Head(rep) = "$" /\ Len(rep) >= 2 /\ rep[2] \in {"$", "&", "`", "'"}
         THEN (CASE rep[2] = "$" -> <<"$">>
                 [] rep[2] = "&" -> matched
                 [] rep[2] = "`" -> before
                 [] rep[2] = "'" -> after)
              \o GetSubstitution(SubSeq(rep, 3, Len(rep)), matched, before, after)
         ELSE <<Head(rep)>> \o GetSubstitution(Tail(rep), matched, before, after)

\* s.replace( k, v ) for a string s and a primitive k: only the first
\* occurrence of ToString( k ) is replaced
StringReplace(h, s, k, v) ==
    LET pat == PrimToStr(k)
        rep == ToString(h, v)
    IN IF rep = TypeError THEN TypeError
       ELSE LET pos == FirstIndexOf(s.s, pat)
            IN IF pos = -1 THEN s
               ELSE LET before == SubSeq(s.s, 1, pos)
                        after  == SubSeq(s.s, pos + Len(pat) + 1, Len(s.s))
                    IN Str(before \o GetSubstitution(rep.s, pat, before, after)
                                  \o after)

\* the callback of [ Symbol.replace ]
ReplaceFn(h, acc, e) == StringReplace(h, acc, e[1], e[2])

\* the callback of indexOf( n ); the carried value holds r and the counter i
\* the callback closes over
IndexOfFn(n, acc, e) ==
    IF acc.r = -1
    THEN IF StrictEquals(e[1], n)
         THEN [r |-> acc.i + 1, i |-> acc.i + 1]
         ELSE [r |-> -1, i |-> acc.i + 1]
    ELSE acc

\* fn( r, [ key, value ], key, this )
Call(h, fn, acc, e) ==
    CASE fn.name = "mapToArray" -> MapToArrayFn(h, acc, e)
      [] fn.name = "indexOf"    -> IndexOfFn(fn.n, acc, e)
      [] fn.name = "replace"    -> ReplaceFn(h, acc, e)

\* reduce( fn, r, iterator ): the fold of fn over the entries; a TypeError
\* raised by fn ends the fold
Reduce(h, fn, r0, es) ==
    IF es = <<>> THEN r0
    ELSE LET next == Call(h, fn, r0, Head(es))
         IN IF next = TypeError THEN TypeError
            ELSE Reduce(h, fn, next, Tail(es))

\* indexOf with `let i = 0` in place of `let i = -1`
indexOfFromOne(h, a, n) ==
    Num(Reduce(h, [name |-> "indexOf", n |-> n], [r |-> -1, i |-> 0], h[a]).r)

indexOf(h, a, n) ==
    Num(Reduce(h, [name |-> "indexOf", n |-> n], [r |-> -1, i |-> -1], h[a]).r)

\* [ Symbol.search ]( n )
search(h, a, n) == indexOf(h, a, n)

\* [ Symbol.replace ]( n )
replace(h, a, n) == Reduce(h, [name |-> "replace"], n, h[a])

(***************************************************************************)
(* filter, map, sortKeys                                                   *)
(* A callback is given by the values it returns, one per entry visited.    *)
(* Each operation yields [h |-> heap after the call, v |-> the new map].   *)
(***************************************************************************)
\* filter with `fn( ... ) !== undefined` in place of the truthiness test
filterDefined(h, a, rets) ==
    LET c   == Construct(h, Undefined)
        es  == h[a]
        acc[i \in 0..Len(es)] ==
            IF i = 0 THEN c.h[c.v.a]
            ELSE IF rets[i] # Undefined THEN MapSet(acc[i - 1], es[i][1], es[i][2])
                 ELSE acc[i - 1]
    IN [h |-> [c.h EXCEPT ![c.v.a] = acc[Len(es)]], v |-> c.v]

\* filter with `const arr = this` in place of `new LightMap()`
filterInPlace(h, a, rets) == [h |-> h, v |-> LM(a)]

filter(h, a, rets) ==
    LET c   == Construct(h, Undefined)               \* new LightMap()
        es  == h[a]
        acc[i \in 0..Len(es)] ==
            IF i = 0 THEN c.h[c.v.a]
            ELSE IF Truthy(rets[i]) THEN MapSet(acc[i - 1], es[i][1], es[i][2])
                 ELSE acc[i - 1]
    IN [h |-> [c.h EXCEPT ![c.v.a] = acc[Len(es)]], v |-> c.v]

\* map with `??` in place of `||`
mapNullish(h, a, rets) ==
    LET c   == Construct(h, Undefined)
        es  == h[a]
        acc[i \in 0..Len(es)] ==
            IF i = 0 THEN c.h[c.v.a]
            ELSE LET entry == IF ~Truthy(rets[i])
                              THEN Arr(<<Undefined, Undefined>>)
                              ELSE rets[i]
                     key   == IF IsNullish(Index(entry, 0)) THEN es[i][1]
                              ELSE Index(entry, 0)
                     value == IF IsNullish(Index(entry, 1)) THEN es[i][2]
                              ELSE Index(entry, 1)
                 IN MapSet(acc[i - 1], key, value)
    IN [h |-> [c.h EXCEPT ![c.v.a] = acc[Len(es)]], v |-> c.v]

map(h, a, rets) ==
    LET c   == Construct(h, Undefined)               \* new LightMap()
        es  == h[a]
        acc[i \in 0..Len(es)] ==
            IF i = 0 THEN c.h[c.v.a]
            ELSE LET entry == IF ~Truthy(rets[i])
                              THEN Arr(<<Undefined, Undefined>>)
                              ELSE rets[i]
                 IN MapSet(acc[i - 1], OrElse(Index(entry, 0), es[i][1]),
                                       OrElse(Index(entry, 1), es[i][2]))
    IN [h |-> [c.h EXCEPT ![c.v.a] = acc[Len(es)]], v |-> c.v]

\* The comparators passed to sort: none (the default order of the strings),
\* ( a, b ) => String( b ) < String( a ) ? -1 : String( a ) < String( b ) ? 1 : 0
\* and ( a, b ) => 0.
Comparators == {"default", "descending", "equal"}

\* SortCompare of Array.prototype.sort: undefined sorts last whatever fn is
SortCompare(fn, x, y) ==
    IF x = Undefined /\ y = Undefined THEN 0
    ELSE IF x = Undefined THEN 1
    ELSE IF y = Undefined THEN -1
    ELSE LET xs == PrimToStr(x)
             ys == PrimToStr(y)
         IN CASE fn = "default"    -> IF StrLess(xs, ys) THEN -1
                                      ELSE IF StrLess(ys, xs) THEN 1 ELSE 0
              [] fn = "descending" -> IF StrLess(ys, xs) THEN -1
                                      ELSE IF StrLess(xs, ys) THEN 1 ELSE 0
              [] fn = "equal"      -> 0

\* x put into the sorted sequence s after every element not greater than it
SortedInsert(fn, s, x) ==
    LET le == {j \in 1..Len(s) : SortCompare(fn, s[j], x) <= 0}
        p  == IF le = {} THEN 0 ELSE CHOOSE j \in le : \A q \in le : q <= j
    IN SubSeq(s, 1, p) \o <<x>> \o SubSeq(s, p + 1, Len(s))

\* [ ...seq ].sort( fn ), a stable sort
Sort(seq, fn) ==
    LET acc[i \in 0..Len(seq)] ==
            IF i = 0 THEN <<>> ELSE SortedInsert(fn, acc[i - 1], seq[i])
    IN acc[Len(seq)]

sortKeys(h, a, fn) ==
    LET keys == Sort(MapKeys(h[a]), fn)
        \* the callback's i-th call returns [ keys[ i ], this.get( keys[ i ] ) ]
        rets == [i \in 1..Len(keys) |-> Arr(<<keys[i], MapGet(h[a], keys[i])>>)]
    IN map(h, a, rets)

\* this.sortValues( fn ): the method's definition is commented out, so the
\* property is undefined and calling it raises a TypeError
sortValues(h, a, fn) == TypeError

(***************************************************************************)
(* The inputs of the model                                                 *)
(***************************************************************************)
SeqsUpTo(S, n) == UNION {[1..k -> S] : k \in 0..n}

Pair(k, v) == Arr(<<k, v>>)

KeyA == Str(<<"a">>)
KeyB == Str(<<"b">>)

Keys == {Num(0), NaN, KeyA, KeyB}

Scalars == {Null, Num(0), KeyB}

\* the elements of an array given as a value: scalars, a two-character
\* string, an object of length 2, and pairs (one of them with a pair array
\* as its value)
Elems ==
    {Null, Num(1), Str(<<"a", "b">>), Obj2}
        \cup {Pair(KeyB, v) : v \in {Num(1), Null, Arr(<<Pair(KeyA, Num(1))>>)}}

Arrays == {Arr(e) : e \in SeqsUpTo(Elems, MaxArr)}

\* arrays of [ key, value ] pairs: scalar values throughout, or an array as
\* the first value
FlatInputs == {Arr(e) : e \in SeqsUpTo({Pair(k, v) : k \in Keys, v \in Scalars},
                                       MaxLen)}

NestedInputs ==
    {Arr(<<Pair(KeyB, a)>> \o rest) :
        a \in Arrays,
        rest \in SeqsUpTo({Pair(KeyA, v) : v \in Scalars}, MaxLen - 1)}

Inputs == FlatInputs \cup NestedInputs

\* what a filter predicate returns on one entry
PredRets == {Num(0), Num(1)}

\* what a map callback returns on one entry
MapRets == {Undefined, Pair(Str(<<>>), Null), Pair(KeyA, Num(1)),
            Pair(Num(0), KeyB), Num(1), Str(<<"a", "b">>)}

\* the keys looked up by indexOf, one of them never a key of the receiver
Lookups == Keys \cup {Num(1)}

\* the strings handed to the replace hook
Subjects == {Str(<<"a", "a">>), Str(<<"a", "b">>), Str(<<"0", "b", "0">>)}

\* the keys and the value of a later set or delete
MutKeys == {KeyA, KeyB}
MutVal  == Str(<<"z">>)

Transforms == {"filter", "map", "sortKeys"}
Mutations  == {"set", "delete"}

(***************************************************************************)
(* The state machine: a client constructs a map m, calls one operation on  *)
(* it (r holds what the call returned, TypeError when it raised), and      *)
(* after a transform mutates m, r or a LightMap held as a value of either. *)
(***************************************************************************)
Init ==
    /\ heap = <<>>
    /\ m = None
    /\ r = None
    /\ op = [name |-> "init"]

\* m = new LightMap( n )
New(n) ==
    /\ op.name = "init"
    /\ LET c == Construct(heap, n)
       IN IF c.v = TypeError
          THEN /\ heap' = heap
               /\ m' = m
               /\ r' = TypeError
          ELSE /\ heap' = c.h
               /\ m' = c.v
               /\ r' = c.v
    /\ op' = [name |-> "new", arg |-> n]

Ready == op.name = "new" /\ m # None

\* r = m.filter( fn )
Filter(rets) ==
    /\ Ready
    /\ LET c == filter(heap, m.a, rets)
       IN heap' = c.h /\ r' = c.v
    /\ op' = [name |-> "filter", arg |-> rets]
    /\ UNCHANGED m

\* r = m.map( fn )
Map(rets) ==
    /\ Ready
    /\ LET c == map(heap, m.a, rets)
       IN heap' = c.h /\ r' = c.v
    /\ op' = [name |-> "map", arg |-> rets]
    /\ UNCHANGED m

\* r = m.sortKeys( fn )
SortKeys(fn) ==
    /\ Ready
    /\ LET c == sortKeys(heap, m.a, fn)
       IN heap' = c.h /\ r' = c.v
    /\ op' = [name |-> "sortKeys", arg |-> fn]
    /\ UNCHANGED m

\* r = m.sortValues( fn )
SortValues(fn) ==
    /\ Ready
    /\ r' = sortValues(heap, m.a, fn)
    /\ op' = [name |-> "sortValues", arg |-> fn]
    /\ UNCHANGED <<heap, m>>

\* r = m.mapToArray()
MapToArray ==
    /\ Ready
    /\ r' = mapToArray(heap, m.a)
    /\ op' = [name |-> "mapToArray"]
    /\ UNCHANGED <<heap, m>>

\* r = m.toString()
ToStringCall ==
    /\ Ready
    /\ r' = toString(heap, m.a)
    /\ op' = [name |-> "toString"]
    /\ UNCHANGED <<heap, m>>

\* r = m.indexOf( k )
IndexOf(k) ==
    /\ Ready
    /\ r' = indexOf(heap, m.a, k)
    /\ op' = [name |-> "indexOf", arg |-> k]
    /\ UNCHANGED <<heap, m>>

\* r = s.replace( m ), which calls m[ Symbol.replace ]( s )
Replace(s) ==
    /\ Ready
    /\ r' = replace(heap, m.a, s)
    /\ op' = [name |-> "replace", arg |-> s]
    /\ UNCHANGED <<heap, m>>

\* r = new LightMap( m.mapToArray() )
Reconstruct ==
    /\ Ready
    /\ LET j == mapToArray(heap, m.a)
           c == IF j = TypeError THEN [h |-> heap, v |-> TypeError]
                ELSE Construct(heap, j)
       IN IF c.v = TypeError
          THEN heap' = heap /\ r' = TypeError
          ELSE heap' = c.h /\ r' = c.v
    /\ op' = [name |-> "reconstruct"]
    /\ UNCHANGED m

\* the instance a later call acts on: m or r themselves (path <<>>) or the
\* LightMap that m or r holds under key path[1]
Top(on) == IF on = "m" THEN m ELSE r

Target(on, path) ==
    IF path = <<>> THEN Top(on) ELSE MapGet(heap[Top(on).a], path[1])

Paths == {<<>>} \cup {<<k>> : k \in Keys}

\* x.set( k, MutVal ), x being m, r, m.get( key ) or r.get( key )
Set(on, path, k) ==
    /\ op.name \in Transforms
    /\ Target(on, path).t = "LightMap"
    /\ heap' = [heap EXCEPT ![Target(on, path).a] = MapSet(@, k, MutVal)]
    /\ op' = [name |-> "set", on |-> on, path |-> path, key |-> k]
    /\ UNCHANGED <<m, r>>

\* x.delete( k )
Delete(on, path, k) ==
    /\ op.name \in Transforms
    /\ Target(on, path).t = "LightMap"
    /\ heap' = [heap EXCEPT ![Target(on, path).a] = MapDelete(@, k)]
    /\ op' = [name |-> "delete", on |-> on, path |-> path, key |-> k]
    /\ UNCHANGED <<m, r>>

\* the returns of a callback over the entries of m, drawn from S
CallbackRets(S) == IF Ready THEN [1..Len(heap[m.a]) -> S] ELSE {}

Next ==
    \/ op.name = "init" /\ \E n \in Inputs : New(n)
    \/ \E rets \in CallbackRets(PredRets) : Filter(rets)
    \/ \E rets \in CallbackRets(MapRets) : Map(rets)
    \/ \E fn \in Comparators : SortKeys(fn)
    \/ \E fn \in Comparators : SortValues(fn)
    \/ MapToArray
    \/ ToStringCall
    \/ \E k \in Lookups : IndexOf(k)
    \/ \E s \in Subjects : Replace(s)
    \/ Reconstruct
    \/ op.name \in Transforms
          /\ \E on \in {"m", "r"}, path \in Paths, k \in MutKeys : Set(on, path, k)
    \/ op.name \in Transforms
          /\ \E on \in {"m", "r"}, path \in Paths, k \in MutKeys : Delete(on, path, k)

Spec == Init /\ [][Next]_vars

(***************************************************************************)
(* Helpers of the properties                                               *)
(***************************************************************************)
RECURSIVE Deep(_, _)
\* the value v with every LightMap it refers to written out
Deep(h, v) ==
    IF v.t = "LightMap"
    THEN [t |-> "LightMap",
          entries |-> [i \in 1..Len(h[v.a]) |->
                          <<h[v.a][i][1], Deep(h, h[v.a][i][2])>>]]
    ELSE v

\* the entries of the receiver and of a LightMap result
MEntries == heap[m.a]
REntries == heap[r.a]

KeySet(es) == {es[i][1] : i \in 1..Len(es)}

IsPrimitive(v) == v.t \in {"undefined", "null", "number", "string"}

\* an array all of whose elements are 2-element arrays
IsPairArray(v) ==
    /\ v.t = "array"
    /\ \A i \in 1..Len(v.e) : v.e[i].t = "array" /\ Len(v.e[i].e) = 2

\* the entries a pair array gives a Map: per key the last value, at the
\* position of the key's first pair
LastValue(pairs, k) ==
    LET is == {i \in 1..Len(pairs) : pairs[i].e[1] = k}
    IN pairs[CHOOSE i \in is : \A j \in is : j <= i].e[2]

(***************************************************************************)
(* C1: for every map m the constructor builds, new LightMap(               *)
(* m.mapToArray() ) has the keys of m in the order of m with structurally  *)
(* equal values, nested maps included.                                     *)
(***************************************************************************)
C1_RoundTrip ==
    op.name = "reconstruct" =>
        /\ r # TypeError
        /\ Deep(heap, r) = Deep(heap, m)

\* a LightMap with a null or undefined value at some depth
RECURSIVE HoldsNullish(_, _)
HoldsNullish(h, v) ==
    /\ v.t = "LightMap"
    /\ \E i \in 1..Len(h[v.a]) :
          IsNullish(h[v.a][i][2]) \/ HoldsNullish(h, h[v.a][i][2])

\* the round trip fails only by mapToArray raising on a null or undefined
\* value (C11); everywhere else it holds
C1_RoundTripUnlessNullish ==
    op.name = "reconstruct" =>
        IF HoldsNullish(heap, m) THEN r = TypeError
        ELSE r # TypeError /\ r # m /\ Deep(heap, r) = Deep(heap, m)

C1_Witness ==
    /\ op.name = "reconstruct"
    /\ r # TypeError
    /\ \E i \in 1..Len(MEntries) :
          /\ MEntries[i][2].t = "LightMap"
          /\ \E j \in 1..Len(heap[MEntries[i][2].a]) :
                heap[MEntries[i][2].a][j][2].t = "LightMap"

(***************************************************************************)
(* C2: sortKeys( comparator ) returns a map with exactly the entries of    *)
(* the receiver (same key set, same size, each key bound to its own        *)
(* value), the keys in non-decreasing order of the comparator, falsy keys  *)
(* and values included.                                                    *)
(***************************************************************************)
C2_SortKeys ==
    op.name = "sortKeys" =>
        /\ r.t = "LightMap"
        /\ Len(REntries) = Len(MEntries)
        /\ KeySet(REntries) = KeySet(MEntries)
        /\ \A i \in 1..Len(MEntries) :
              \E j \in 1..Len(REntries) : REntries[j] = MEntries[i]
        /\ \A i, j \in 1..Len(REntries) :
              i < j => SortCompare(op.arg, REntries[i][1], REntries[j][1]) <= 0

\* on a receiver whose keys and values are all truthy the claim holds
C2_SortKeysTruthy ==
    (/\ op.name = "sortKeys"
     /\ \A i \in 1..Len(MEntries) :
           Truthy(MEntries[i][1]) /\ Truthy(MEntries[i][2])) =>
        /\ Len(REntries) = Len(MEntries)
        /\ \A i \in 1..Len(MEntries) :
              \E j \in 1..Len(REntries) : REntries[j] = MEntries[i]
        /\ \A i, j \in 1..Len(REntries) :
              i < j => SortCompare(op.arg, REntries[i][1], REntries[j][1]) <= 0

C2_Witness ==
    /\ op.name = "sortKeys"
    /\ Len(MEntries) = 2
    /\ \E i \in 1..2 : ~Truthy(MEntries[i][1])
    /\ Len(REntries) = 1

(***************************************************************************)
(* C3: the container offers sortValues( comparator? ), which returns a new *)
(* map with exactly the entries of the receiver, ordered by the comparator *)
(* applied to the values.                                                  *)
(***************************************************************************)
C3_SortValues ==
    op.name = "sortValues" =>
        /\ r # TypeError
        /\ r.t = "LightMap"
        /\ r # m
        /\ Len(REntries) = Len(MEntries)
        /\ \A i \in 1..Len(MEntries) :
              \E j \in 1..Len(REntries) : REntries[j] = MEntries[i]
        /\ \A i, j \in 1..Len(REntries) :
              (i < j /\ IsPrimitive(REntries[i][2]) /\ IsPrimitive(REntries[j][2]))
                  => SortCompare(op.arg, REntries[i][2], REntries[j][2]) <= 0

C3_Witness ==
    /\ op.name = "sortValues"
    /\ Len(MEntries) = 2
    /\ r = TypeError

(***************************************************************************)
(* C4: map( transform ) gives the result, for every entry ( k, v ) in      *)
(* iteration order, a set of key k' and value v': k' is the key the        *)
(* transform returned if that is truthy and k otherwise, v' the value it   *)
(* returned if that is truthy and v otherwise; a falsy return, or          *)
(* [ '', null ], leaves the entry as ( k, v ).                             *)
(***************************************************************************)
\* the key and the value the i-th set of map( op.arg ) is given
C4_Key(i) ==
    IF ~Truthy(op.arg[i]) \/ op.arg[i] = Pair(Str(<<>>), Null)
    THEN MEntries[i][1]
    ELSE IF Truthy(Index(op.arg[i], 0)) THEN Index(op.arg[i], 0)
    ELSE MEntries[i][1]

C4_Value(i) ==
    IF ~Truthy(op.arg[i]) \/ op.arg[i] = Pair(Str(<<>>), Null)
    THEN MEntries[i][2]
    ELSE IF Truthy(Index(op.arg[i], 1)) THEN Index(op.arg[i], 1)
    ELSE MEntries[i][2]

\* the position of the first set and of the last set given key k
C4_First(k) ==
    CHOOSE i \in 1..Len(MEntries) :
        C4_Key(i) = k /\ \A j \in 1..(i - 1) : C4_Key(j) # k

C4_Last(k) ==
    CHOOSE i \in 1..Len(MEntries) :
        C4_Key(i) = k /\ \A j \in (i + 1)..Len(MEntries) : C4_Key(j) # k

\* the result holds the keys set, each once, in the order of their first set
\* and bound to the value of their last set
C4_MapFallback ==
    op.name = "map" =>
        /\ r.t = "LightMap"
        /\ KeySet(REntries) = {C4_Key(i) : i \in 1..Len(MEntries)}
        /\ Len(REntries) = Cardinality(KeySet(REntries))
        /\ \A p \in 1..Len(REntries) :
              REntries[p][2] = C4_Value(C4_Last(REntries[p][1]))
        /\ \A p, q \in 1..Len(REntries) :
              p < q => C4_First(REntries[p][1]) < C4_First(REntries[q][1])
        /\ (\A i \in 1..Len(MEntries) :
               ~Truthy(op.arg[i]) \/ op.arg[i] = Pair(Str(<<>>), Null))
              => REntries = MEntries

C4_Witness ==
    /\ op.name = "map"
    /\ Len(MEntries) = 2
    /\ op.arg[1] = Pair(Str(<<>>), Null)
    /\ op.arg[2] = Pair(Num(0), KeyB)
    /\ REntries[1] = MEntries[1]
    /\ REntries[2] = <<MEntries[2][1], KeyB>>
    /\ MEntries[2][2] # KeyB

(***************************************************************************)
(* C5: filter( predicate ) returns a new map whose entries are exactly the *)
(* entries of the receiver on which the predicate is truthy, in the        *)
(* receiver's order, and leaves the receiver's entries and order as they   *)
(* were.                                                                   *)
(***************************************************************************)
\* the positions the predicate keeps, and the rank of a kept position
C5_Kept(rets) == {i \in 1..Len(rets) : Truthy(rets[i])}

C5_Rank(rets, i) == Cardinality({j \in C5_Kept(rets) : j <= i})

C5_Filter ==
    [][op'.name = "filter" =>
          /\ m' = m
          /\ r' # m
          /\ r'.t = "LightMap"
          /\ Deep(heap', m) = Deep(heap, m)
          /\ Len(heap'[r'.a]) = Cardinality(C5_Kept(op'.arg))
          /\ \A i \in C5_Kept(op'.arg) :
                heap'[r'.a][C5_Rank(op'.arg, i)] = heap[m.a][i]]_vars

C5_Witness ==
    /\ op.name = "filter"
    /\ Len(MEntries) = 2
    /\ ~Truthy(op.arg[1])
    /\ Truthy(op.arg[2])
    /\ REntries = <<MEntries[2]>>

(***************************************************************************)
(* C6: indexOf( key ) returns the zero-based position of the entry whose   *)
(* key equals the given key and -1 when no entry has that key, so it is    *)
(* not -1 exactly when the map has the key.                                *)
(***************************************************************************)
C6_IndexOfIffHas ==
    op.name = "indexOf" =>
        /\ (r # Num(-1)) <=> MapHas(MEntries, op.arg)
        /\ r # Num(-1) => MEntries[r.n + 1][1] = op.arg

\* as amended: the key is matched by ===, so NaN, which a map can hold as a
\* key, is never found; any other key is found exactly when the map has it
C6_IndexOfStrict ==
    op.name = "indexOf" =>
        /\ r.t = "number"
        /\ r.n \in -1..(Len(MEntries) - 1)
        /\ r # Num(-1) => StrictEquals(MEntries[r.n + 1][1], op.arg)
        /\ r = Num(-1) =>
              \A i \in 1..Len(MEntries) : ~StrictEquals(MEntries[i][1], op.arg)
        /\ op.arg = NaN => r = Num(-1)
        /\ op.arg # NaN => ((r # Num(-1)) <=> MapHas(MEntries, op.arg))

C6_Witness ==
    /\ op.name = "indexOf"
    /\ Len(MEntries) = 2
    /\ MEntries[1][1] = NaN
    /\ op.arg = MEntries[2][1]
    /\ r = Num(1)

(***************************************************************************)
(* C7: at construction a value is replaced by a nested LightMap if and     *)
(* only if it is an array all of whose elements are 2-element arrays; an   *)
(* array with an element that is not a 2-element array (a 2-character      *)
(* string, an object whose length is 2) and a non-array value are stored   *)
(* unchanged.                                                              *)
(***************************************************************************)
\* the pairs the constructor was given
C7_Pairs == op.arg.e

C7_NestedBoundary ==
    op.name = "new" =>
        /\ r # TypeError
        /\ \A i \in 1..Len(C7_Pairs) :
              LET k == C7_Pairs[i].e[1]
                  v == LastValue(C7_Pairs, k)
              IN /\ MapHas(heap[r.a], k)
                 /\ (MapGet(heap[r.a], k).t = "LightMap") <=> IsPairArray(v)
                 /\ ~IsPairArray(v) => MapGet(heap[r.a], k) = v

\* an array holding an object of length 2 becomes a nested map
C7_Witness ==
    /\ op.name = "new"
    /\ r # TypeError
    /\ \E i \in 1..Len(C7_Pairs) :
          /\ C7_Pairs[i].e[2] = Arr(<<Obj2>>)
          /\ MapGet(heap[r.a], C7_Pairs[i].e[1]).t = "LightMap"

\* where the constructor does not raise and no element is an object of
\* length 2, the boundary is as claimed
C7_BoundaryOfArrays ==
    (/\ op.name = "new"
     /\ r # TypeError
     /\ \A i \in 1..Len(C7_Pairs) :
           C7_Pairs[i].e[2].t = "array" =>
               \A j \in 1..Len(C7_Pairs[i].e[2].e) : C7_Pairs[i].e[2].e[j] # Obj2) =>
        \A i \in 1..Len(C7_Pairs) :
            LET k == C7_Pairs[i].e[1]
                v == LastValue(C7_Pairs, k)
            IN /\ (MapGet(heap[r.a], k).t = "LightMap") <=> IsPairArray(v)
               /\ ~IsPairArray(v) => MapGet(heap[r.a], k) = v

(***************************************************************************)
(* C8: the replace hook replaces every literal occurrence of each key with *)
(* that key's value, one key after another in iteration order, each step   *)
(* on the string the step before produced.                                 *)
(***************************************************************************)
RECURSIVE ReplaceEvery(_, _, _)
\* s with every occurrence of the non-empty pat, left to right, replaced by rep
ReplaceEvery(s, pat, rep) ==
    LET pos == FirstIndexOf(s, pat)
    IN IF pos = -1 THEN s
       ELSE SubSeq(s, 1, pos) \o rep
                \o ReplaceEvery(SubSeq(s, pos + Len(pat) + 1, Len(s)), pat, rep)

RECURSIVE C8_Expected(_, _, _)
C8_Expected(es, i, s) ==
    IF i > Len(es) THEN s
    ELSE C8_Expected(es, i + 1,
                     ReplaceEvery(s, PrimToStr(es[i][1]), PrimToStr(es[i][2])))

C8_ReplaceEvery ==
    (/\ op.name = "replace"
     /\ \A i \in 1..Len(MEntries) : IsPrimitive(MEntries[i][2])) =>
        r = Str(C8_Expected(MEntries, 1, op.arg.s))

C8_Witness ==
    /\ op.name = "replace"
    /\ op.arg = Str(<<"a", "a">>)
    /\ MEntries = <<<<KeyA, KeyB>>>>
    /\ r = Str(<<"b", "a">>)

\* where no key occurs twice in the string a step works on, the hook does
\* as claimed
RECURSIVE C8_AtMostOnce(_, _, _)
C8_AtMostOnce(es, i, s) ==
    IF i > Len(es) THEN TRUE
    ELSE LET pat == PrimToStr(es[i][1])
             pos == FirstIndexOf(s, pat)
         IN /\ pos # -1 =>
                  FirstIndexOf(SubSeq(s, pos + Len(pat) + 1, Len(s)), pat) = -1
            /\ C8_AtMostOnce(es, i + 1, ReplaceEvery(s, pat, PrimToStr(es[i][2])))

C8_ReplaceSingle ==
    (/\ op.name = "replace"
     /\ \A i \in 1..Len(MEntries) : IsPrimitive(MEntries[i][2])
     /\ C8_AtMostOnce(MEntries, 1, op.arg.s)) =>
        r = Str(C8_Expected(MEntries, 1, op.arg.s))

(***************************************************************************)
(* C9: construction never raises on the shape of a value: for every array  *)
(* of [ key, value ] pairs the constructor completes, and every value that *)
(* is not an array of pairs is stored as it is.                            *)
(***************************************************************************)
C9_NeverRaises ==
    op.name = "new" =>
        /\ r # TypeError
        /\ r = m
        /\ \A i \in 1..Len(op.arg.e) :
              LET k == op.arg.e[i].e[1]
                  v == LastValue(op.arg.e, k)
              IN ~IsPairArray(v) => MapGet(heap[m.a], k) = v

\* the constructor raised on an array holding null
C9_Witness ==
    /\ op.name = "new"
    /\ r = TypeError
    /\ m = None
    /\ op.arg.e[1].e[2] = Arr(<<Null>>)

(***************************************************************************)
(* C10: after r = m.filter( p ), m.map( f ) or m.sortKeys( c ), no later   *)
(* set or delete on r, or on a LightMap held as a value of r, changes what *)
(* m.mapToArray() returns, and the same with m and r exchanged.            *)
(***************************************************************************)
\* the other of m and r
Other(on) == IF on = "m" THEN r ELSE m

C10_Independent ==
    [][op'.name \in Mutations =>
          mapToArray(heap', Other(op'.on).a) = mapToArray(heap, Other(op'.on).a)]_vars

\* as amended: a set or delete on r itself (on m itself) leaves the entries
\* of m (of r) and what its mapToArray() returns as they were, while a
\* LightMap held as a value is one object shared by m and r
C10_TopLevelIndependent ==
    [][/\ (op'.name \in Mutations /\ op'.path = <<>>) =>
            /\ heap'[Other(op'.on).a] = heap[Other(op'.on).a]
            /\ mapToArray(heap', Other(op'.on).a) = mapToArray(heap, Other(op'.on).a)
       /\ op'.name \in Transforms =>
            /\ r' # m
            /\ r'.a \notin 1..Len(heap)
            /\ \A i \in 1..Len(heap'[r'.a]) :
                  heap'[r'.a][i][2].t = "LightMap" =>
                      \E j \in 1..Len(heap[m.a]) :
                          heap[m.a][j][2] = heap'[r'.a][i][2]]_vars

\* r.set( 'b', 'z' ) replaced the nested map r held under 'b'; m still holds it
C10_Witness ==
    /\ op.name = "set"
    /\ op.on = "r"
    /\ op.path = <<>>
    /\ op.key = KeyB
    /\ MapGet(MEntries, KeyB).t = "LightMap"
    /\ MapGet(REntries, KeyB) = MutVal

(***************************************************************************)
(* C11: mapToArray() (and so toJSON() and toString()) is total: on every   *)
(* constructed instance, null and undefined values included, it completes  *)
(* without raising and returns one [ key, value ] pair per entry, in       *)
(* iteration order, every LightMap value replaced by its own array of      *)
(* pairs.                                                                  *)
(***************************************************************************)
RECURSIVE C11_Pairs(_, _)
\* one pair per entry, a LightMap value written as its own array of pairs
C11_Pairs(h, a) ==
    Arr([i \in 1..Len(h[a]) |->
            Arr(<<h[a][i][1],
                  IF h[a][i][2].t = "LightMap" THEN C11_Pairs(h, h[a][i][2].a)
                  ELSE h[a][i][2]>>)])

C11_Total ==
    /\ op.name = "mapToArray" => (r # TypeError /\ r = C11_Pairs(heap, m.a))
    /\ op.name = "toString" =>
          (r # TypeError /\ r = Str(Stringify(C11_Pairs(heap, m.a))))

\* mapToArray() raises exactly on the maps that hold a null or undefined
\* value at some depth, and returns the pairs on every other map
C11_TotalUnlessNullish ==
    /\ op.name = "mapToArray" =>
          IF HoldsNullish(heap, m) THEN r = TypeError
          ELSE r = C11_Pairs(heap, m.a)
    /\ op.name = "toString" =>
          IF HoldsNullish(heap, m) THEN r = TypeError
          ELSE r = Str(Stringify(C11_Pairs(heap, m.a)))

\* mapToArray() raised on a map whose first value is null
C11_Witness ==
    /\ op.name = "mapToArray"
    /\ Len(MEntries) = 2
    /\ MEntries[1][2] = Null
    /\ r = TypeError
====
